---- MODULE Spec2Model ----
(***************************************************************************)
(* Model of the job-listing parse pipeline of JobTracker                   *)
(* (src/helpers/jobListingJson.ts): parseJobListings and the zod           *)
(* validators and transforms it is composed of; and of the debounce        *)
(* helper with the timers it sets.                                         *)
(*                                                                         *)
(* JSON values are records [k |-> <typeof / shape>, v |-> <content>]:      *)
(* a string carries its text, a number or boolean its literal, an array    *)
(* the sequence of its elements.  JavaScript indices are 0-based, TLA+     *)
(* sequences 1-based: index i of the source is position i + 1 here.        *)
(***************************************************************************)
EXTENDS Integers, Sequences, FiniteSets, TLC

\* One call of parseJobListings
VARIABLES apiData, pc, data, records, listings, result

\* One function returned by debounce(callback, debounceTimeMs), the timers
\* of the window it runs in, and what has happened to it so far
VARIABLES debounceTimeMs, callbackCalls, debounceId, timeouts, timerCount,
          now, calls, invoked

parserVars == <<apiData, pc, data, records, listings, result>>

debounceVars ==
  <<debounceTimeMs, callbackCalls, debounceId, timeouts, timerCount,
    now, calls, invoked>>

vars == <<parserVars, debounceVars>>

-----------------------------------------------------------------------------
(* JSON values *)

Str(s) == [k |-> "string", v |-> s]
Num(s) == [k |-> "number", v |-> s]
Bool(s) == [k |-> "boolean", v |-> s]
Arr(s) == [k |-> "array", v |-> s]
Null == [k |-> "null", v |-> "null"]
Obj == [k |-> "object", v |-> "{}"]
Undefined == [k |-> "undefined", v |-> "undefined"]

Range(s) == {s[i] : i \in DOMAIN s}

-----------------------------------------------------------------------------
(* The schema *)

requiredFields ==
  <<"company", "jobTitle", "location", "appStatus", "url", "notes",
    "dateSubmitted", "dateLastModified">>

requiredFieldsSet == Range(requiredFields)

isRequiredField(value) == value \in requiredFieldsSet

\* A cell validator that lets every JSON value through.
jsonSheetCellValidatorAny(cell) == TRUE

\* z.union([z.string(), z.number(), z.boolean()])
jsonSheetCellValidator(cell) == cell.k \in {"string", "number", "boolean"}

\* jsonSheetCellValidator.array().nonempty().min(requiredFields.length)
jsonSheetRowValidator(row) ==
  /\ row.k = "array"
  /\ \A i \in DOMAIN row.v : jsonSheetCellValidator(row.v[i])
  /\ Len(row.v) >= 1
  /\ Len(row.v) >= Len(requiredFields)

-----------------------------------------------------------------------------
(* Text checks of the JobListing schema (zod string checks) *)

Char(s, i) == SubSeq(s, i, i)

Digit == {"0", "1", "2", "3", "4", "5", "6", "7", "8", "9"}

Lower ==
  {"a", "b", "c", "d", "e", "f", "g", "h", "i", "j", "k", "l", "m", "n",
   "o", "p", "q", "r", "s", "t", "u", "v", "w", "x", "y", "z"}

Upper ==
  {"A", "B", "C", "D", "E", "F", "G", "H", "I", "J", "K", "L", "M", "N",
   "O", "P", "Q", "R", "S", "T", "U", "V", "W", "X", "Y", "Z"}

AllDigits(s, from, to) == \A i \in from..to : Char(s, i) \in Digit

\* z.string().datetime(): ^\d{4}-\d{2}-\d{2}T\d{2}:\d{2}:\d{2}(\.\d+)?Z$
\* (UTC only, no offset; the fraction is optional).
DateTimeStemLen == 19

IsDateTime(s) ==
  LET n == Len(s) IN
  /\ n > DateTimeStemLen
  /\ AllDigits(s, 1, 4) /\ Char(s, 5) = "-"
  /\ AllDigits(s, 6, 7) /\ Char(s, 8) = "-"
  /\ AllDigits(s, 9, 10) /\ Char(s, 11) = "T"
  /\ AllDigits(s, 12, 13) /\ Char(s, 14) = ":"
  /\ AllDigits(s, 15, 16) /\ Char(s, 17) = ":"
  /\ AllDigits(s, 18, 19)
  /\ Char(s, n) = "Z"
  /\ \/ n = DateTimeStemLen + 1
     \/ /\ n > DateTimeStemLen + 2
        /\ Char(s, DateTimeStemLen + 1) = "."
        /\ AllDigits(s, DateTimeStemLen + 2, n - 1)

\* z.string().url(): the text is accepted exactly when `new URL(text)`
\* does not throw.  Without a base URL the parser needs a scheme
\* (a letter, then letters, digits, "+", "-", "."), a ":" after it and,
\* for the special schemes, a non-empty host without forbidden characters.
SchemeChar == Lower \cup Upper \cup Digit \cup {"+", "-", "."}

SpecialSchemes == {"http", "https", "ws", "wss", "ftp"}

ForbiddenHostChar == {" ", "<", ">", "^", "|", "%", "[", "]"}

\* Position of the first ":" of s, 0 when there is none.
ColonAt(s) ==
  LET at == {i \in 1..Len(s) : Char(s, i) = ":"} IN
  IF at = {} THEN 0 ELSE CHOOSE i \in at : \A j \in at : i <= j

\* First position >= from of s that holds none of the characters `skip`.
RECURSIVE SkipChars(_, _, _)
SkipChars(s, from, skip) ==
  IF from <= Len(s) /\ Char(s, from) \in skip
    THEN SkipChars(s, from + 1, skip)
    ELSE from

\* First position >= from of s that holds one of the characters `stop`,
\* Len(s) + 1 when there is none.
RECURSIVE FindChars(_, _, _)
FindChars(s, from, stop) ==
  IF from <= Len(s) /\ Char(s, from) \notin stop
    THEN FindChars(s, from + 1, stop)
    ELSE from

IsUrl(s) ==
  LET colon == ColonAt(s)
      scheme == SubSeq(s, 1, colon - 1)
      hostFrom == SkipChars(s, colon + 1, {"/", "\\"})
      hostTo == FindChars(s, hostFrom, {"/", "\\", "?", "#"}) - 1
  IN
  /\ colon > 1
  /\ Char(s, 1) \in Lower \cup Upper
  /\ \A i \in 1..(colon - 1) : Char(s, i) \in SchemeChar
  /\ scheme \in SpecialSchemes =>
       /\ hostTo >= hostFrom
       /\ \A i \in hostFrom..hostTo : Char(s, i) \notin ForbiddenHostChar

-----------------------------------------------------------------------------
(* Parse results: what safeParse of a zod schema yields, or the exception   *)
(* a transform raised while running.                                        *)

Success(d) == [status |-> "success", data |-> d]
Failure == [status |-> "failure", data |-> <<>>]
Thrown == [status |-> "thrown", data |-> <<>>]

-----------------------------------------------------------------------------
(* Stage 1 and 2: initialResponseProcessor *)

MinTableRows == 2

\* The envelope schema with its row minimum one too high.
initialResponseSchemaOneMore(payload) ==
  /\ payload.k = "object"
  /\ payload.majorDimension = Str("ROWS")
  /\ payload.values.k = "array"
  /\ \A i \in DOMAIN payload.values.v : jsonSheetRowValidator(payload.values.v[i])
  /\ Len(payload.values.v) > MinTableRows

\* z.object({ majorDimension: z.literal("ROWS"),
\*            values: z.array(jsonSheetRowValidator).nonempty().min(2) })
initialResponseSchema(payload) ==
  /\ payload.k = "object"
  /\ payload.majorDimension = Str("ROWS")
  /\ payload.values.k = "array"
  /\ \A i \in DOMAIN payload.values.v : jsonSheetRowValidator(payload.values.v[i])
  /\ Len(payload.values.v) >= 1
  /\ Len(payload.values.v) >= MinTableRows

\* const [fieldsRow, ...dataRows] = data.values;
\* Destructuring a value that is not iterable raises a TypeError; of an empty
\* array it leaves fieldsRow undefined.
splitRows(payload) ==
  IF payload.values.k # "array"
    THEN Thrown
    ELSE Success([fields |-> IF payload.values.v = <<>>
                               THEN Undefined
                               ELSE Head(payload.values.v),
                  rows |-> IF payload.values.v = <<>>
                             THEN <<>>
                             ELSE Tail(payload.values.v)])

\* The transform run without its schema having accepted the payload.
initialResponseProcessorUnchecked(payload) == splitRows(payload)

initialResponseProcessor(payload) ==
  IF initialResponseSchema(payload) THEN splitRows(payload) ELSE Failure

-----------------------------------------------------------------------------
(* Stage 3: apiDataValidator *)

\* The header check without its first refinement.
NoDuplicateFieldsUnchecked(apiFields) == TRUE

\* apiFields.length === new Set(apiFields).size
NoDuplicateFields(apiFields) == Len(apiFields) = Cardinality(Range(apiFields))

\* requiredFields.every((rf) => apiFields.includes(rf))
AllRequiredPresent(apiFields) ==
  \A n \in DOMAIN requiredFields : requiredFields[n] \in Range(apiFields)

\* fields: z.string().array().min(requiredFields.length).refine(..).refine(..)
\* Both refinements read the header names, that is the cells' text.
fieldsSchema(fields) ==
  /\ fields.k = "array"
  /\ \A i \in DOMAIN fields.v : fields.v[i].k = "string"
  /\ Len(fields.v) >= Len(requiredFields)
  /\ NoDuplicateFields([i \in DOMAIN fields.v |-> fields.v[i].v])
  /\ AllRequiredPresent([i \in DOMAIN fields.v |-> fields.v[i].v])

\* rows: z.array(jsonSheetRowValidator)
rowsSchema(rows) == \A i \in DOMAIN rows : jsonSheetRowValidator(rows[i])

\* A validator that also rejects a table with a row shorter than its header.
apiDataValidatorFullRows(split) ==
  /\ fieldsSchema(split.fields)
  /\ rowsSchema(split.rows)
  /\ \A i \in DOMAIN split.rows : Len(split.rows[i].v) >= Len(split.fields.v)

apiDataValidator(split) == fieldsSchema(split.fields) /\ rowsSchema(split.rows)

-----------------------------------------------------------------------------
(* Stage 4a: the record builder (first transform of recordsTransformer)     *)

\* A JavaScript object as a function from its own keys to their values.
SetKey(object, key, value) ==
  [x \in DOMAIN object \cup {key} |-> IF x = key THEN value ELSE object[x]]

EmptyObject == [x \in {} |-> Undefined]

\* new Map(apiData.fields.map((field, index) => [index, field]))
fieldIndices(fields) == [i \in DOMAIN fields.v |-> fields.v[i].v]

\* fieldIndices.get(index) ?? ""
recordKeyAt(indices, index) ==
  IF index \in DOMAIN indices THEN indices[index] ELSE ""

\* The loop body of the earlier recordsTransformer, which kept a cell
\* outside the required columns only under the name "extraFields".
putCellNamedOnly(record, recordKey, cellValue) ==
  IF isRequiredField(recordKey) /\ cellValue.k = "string"
    THEN SetKey(record, recordKey, cellValue)
    ELSE IF recordKey = "extraFields"
           THEN SetKey(record, "extraFields",
                       SetKey(record["extraFields"], recordKey, cellValue))
           ELSE record

\* A loop body that files a cell of a required column that is not text
\* under extraFields, like any cell outside the required columns.
putCellKeepNonText(record, recordKey, cellValue) ==
  IF isRequiredField(recordKey) /\ cellValue.k = "string"
    THEN SetKey(record, recordKey, cellValue)
    ELSE SetKey(record, "extraFields",
                SetKey(record["extraFields"], recordKey, cellValue))

\* A loop body that skips the cells past the end of the header.
putCellSkipUnnamed(record, recordKey, cellValue) ==
  IF recordKey = ""
    THEN record
    ELSE IF isRequiredField(recordKey)
           THEN IF cellValue.k # "string"
                  THEN record
                  ELSE SetKey(record, recordKey, cellValue)
           ELSE SetKey(record, "extraFields",
                       SetKey(record["extraFields"], recordKey, cellValue))

\* One turn of the loop `for (const [index, cellValue] of row.entries())`.
putCell(record, recordKey, cellValue) ==
  IF isRequiredField(recordKey)
    THEN IF cellValue.k # "string"
           THEN record
           ELSE SetKey(record, recordKey, cellValue)
    ELSE SetKey(record, "extraFields",
                SetKey(record["extraFields"], recordKey, cellValue))

RECURSIVE buildFrom(_, _, _, _)
buildFrom(indices, cells, index, record) ==
  IF index > Len(cells)
    THEN record
    ELSE buildFrom(indices, cells, index + 1,
                   putCell(record, recordKeyAt(indices, index), cells[index]))

\* const record: PartialJobListing = { extraFields: {} }; ... return record;
buildRecord(indices, row) ==
  buildFrom(indices, row.v, 1, SetKey(EmptyObject, "extraFields", EmptyObject))

\* apiData.rows.map((row) => ...); row.entries() of a value that is not an
\* array raises a TypeError, as does fields.map of a value that is not one.
buildRecords(split) ==
  IF split.fields.k # "array" \/ \E i \in DOMAIN split.rows : split.rows[i].k # "array"
    THEN Thrown
    ELSE Success([i \in DOMAIN split.rows |->
                    buildRecord(fieldIndices(split.fields), split.rows[i])])

-----------------------------------------------------------------------------
(* Stage 4b: jobListingValidator and the filtering transform               *)

IsText(record, key) == key \in DOMAIN record /\ record[key].k = "string"

\* A schema that asks for text everywhere and checks no format.
jobListingSchemaTextOnly(record) ==
  /\ \A key \in requiredFieldsSet : IsText(record, key)
  /\ "extraFields" \in DOMAIN record

\* z.object({...}).safeParse(record): every field is checked; unknown keys
\* are stripped from the result.
jobListingSchema(record) ==
  /\ IsText(record, "company") /\ Len(record["company"].v) >= 1
  /\ IsText(record, "jobTitle") /\ Len(record["jobTitle"].v) >= 1
  /\ IsText(record, "appStatus") /\ Len(record["appStatus"].v) >= 1
  /\ IsText(record, "dateSubmitted") /\ IsDateTime(record["dateSubmitted"].v)
  /\ IsText(record, "dateLastModified") /\ IsDateTime(record["dateLastModified"].v)
  /\ "extraFields" \in DOMAIN record
  /\ \A key \in DOMAIN record["extraFields"] :
       jsonSheetCellValidator(record["extraFields"][key])
  /\ IsText(record, "location")
  /\ IsText(record, "notes")
  /\ IsText(record, "url")
  /\ record["url"].v = "" \/ IsUrl(record["url"].v)

\* The keys of the schema
ListingKeys == requiredFieldsSet \cup {"extraFields"}

\* The JobListing that safeParse returns for a record the schema accepts:
\* the record's values under the keys of the schema.
toJobListing(record) == [key \in ListingKeys |-> record[key]]

\* listingResult.success ? [listingResult.data] : []
listingOf(record) ==
  IF jobListingSchema(record) THEN <<toJobListing(record)>> ELSE <<>>

\* A filter that gives up at the first record the schema rejects.
RECURSIVE flatMapListingsUntilFailure(_)
flatMapListingsUntilFailure(recs) ==
  IF recs = <<>> \/ listingOf(Head(recs)) = <<>>
    THEN <<>>
    ELSE listingOf(Head(recs)) \o flatMapListingsUntilFailure(Tail(recs))

\* A filter that gathers the listings last row first.
RECURSIVE flatMapListingsReversed(_)
flatMapListingsReversed(recs) ==
  IF recs = <<>>
    THEN <<>>
    ELSE flatMapListingsReversed(Tail(recs)) \o listingOf(Head(recs))

\* records.flatMap((record) => ...)
RECURSIVE flatMapListings(_)
flatMapListings(recs) ==
  IF recs = <<>>
    THEN <<>>
    ELSE listingOf(Head(recs)) \o flatMapListings(Tail(recs))

-----------------------------------------------------------------------------
(* The pipeline as one function *)

\* apiDataValidator.transform(...).transform(...)
recordsTransformer(split) ==
  IF ~apiDataValidator(split)
    THEN Failure
    ELSE LET built == buildRecords(split) IN
         IF built.status # "success"
           THEN built
           ELSE Success(flatMapListings(built.data))

\* z.pipeline(initialResponseProcessor, recordsTransformer)
jobListingDataPipeline(payload) ==
  LET first == initialResponseProcessor(payload) IN
  IF first.status # "success" THEN first ELSE recordsTransformer(first.data)

\* parseResult.success ? parseResult.data : []
\* The outcome of a call: the array returned, or the exception that a
\* transform raised and safeParse let through.
Returned(listing) == [status |-> "returned", data |-> listing]

parseJobListings(payload) ==
  LET parseResult == jobListingDataPipeline(payload) IN
  IF parseResult.status = "thrown"
    THEN Thrown
    ELSE Returned(IF parseResult.status = "success" THEN parseResult.data ELSE <<>>)

-----------------------------------------------------------------------------
(* The payloads a caller passes *)

MaxRows == 2

Cells(texts) == [i \in DOMAIN texts |-> Str(texts[i])]

Replace(cells, at, cell) == [cells EXCEPT ![at] = cell]

\* Header rows
requiredHeader == Cells(requiredFields)
sourceHeader == requiredHeader \o <<Str("source")>>
sourceFirstHeader == <<Str("source")>> \o requiredHeader
noUrlHeader == Replace(sourceHeader, 5, Str("link"))
twiceCompanyHeader == requiredHeader \o <<Str("company")>>
numberHeader == requiredHeader \o <<Num("42")>>
unnamedHeader == requiredHeader \o <<Str("")>>

Headers ==
  {requiredHeader, sourceHeader, sourceFirstHeader, noUrlHeader,
   twiceCompanyHeader, numberHeader, unnamedHeader}

\* Data rows
acmeRow ==
  Cells(<<"Acme", "Engineer", "Remote", "Applied", "https://acme.example/job",
          "", "2024-01-01T00:00:00.000Z", "2024-01-02T00:00:00.000Z",
          "LinkedIn">>)
globexRow ==
  Cells(<<"Globex", "Analyst", "", "Interview", "", "called back",
          "2024-02-01T09:30:00Z", "2024-02-03T10:00:00Z">>) \o <<Num("7")>>
initechRow ==
  <<Bool("true")>> \o
  Cells(<<"Initech", "Tester", "Austin", "Offer", "mailto:hr@initech.example",
          "", "2024-03-01T00:00:00Z", "2024-03-05T00:00:00.5Z">>)

DataRows ==
  {Arr(acmeRow), Arr(globexRow), Arr(initechRow),
   Arr(SubSeq(acmeRow, 1, 8)),
   Arr(SubSeq(acmeRow, 1, 7)),
   Arr(SubSeq(initechRow, 1, 8)),
   Arr(acmeRow \o <<Str("overflow")>>),
   Arr(Replace(acmeRow, 5, Str("not-a-url"))),
   Arr(Replace(acmeRow, 7, Str("2024-01-01"))),
   Arr(Replace(globexRow, 1, Str(""))),
   Arr(Replace(acmeRow, 1, Num("42"))),
   Arr(Replace(acmeRow, 9, Obj)),
   Arr(Replace(acmeRow, 6, Null)),
   Arr(<<>>)}

RECURSIVE RowSeqs(_)
RowSeqs(n) ==
  IF n = 0
    THEN {<<>>}
    ELSE LET shorter == RowSeqs(n - 1) IN
         shorter \cup {rows \o <<row>> : rows \in {r \in shorter : Len(r) = n - 1},
                                         row \in DataRows}

Payload(kind, majorDimension, values) ==
  [k |-> kind, majorDimension |-> majorDimension, values |-> values]

\* Sheets API responses: { majorDimension: "ROWS", values: [header, ...rows] }
Tables ==
  {Payload("object", Str("ROWS"), Arr(<<Arr(header)>> \o rows)) :
     header \in Headers, rows \in RowSeqs(MaxRows)}

scenarioValues == Arr(<<Arr(sourceHeader), Arr(acmeRow)>>)

\* Everything else a caller holding an `unknown` may pass
OtherPayloads ==
  {Payload("null", Undefined, Undefined),
   Payload("number", Undefined, Undefined),
   Payload("string", Undefined, Undefined),
   Payload("array", Undefined, Undefined),
   Payload("object", Undefined, Undefined),
   Payload("object", Str("ROWS"), Undefined),
   Payload("object", Str("ROWS"), Num("42")),
   Payload("object", Str("ROWS"), Null),
   Payload("object", Str("ROWS"), Arr(<<>>)),
   Payload("object", Undefined, scenarioValues),
   Payload("object", Str("COLUMNS"), scenarioValues)}

Payloads == Tables \cup OtherPayloads

-----------------------------------------------------------------------------
(* debounce (helpers/debounce): the function callDebounced it returns for   *)
(* a positive whole debounceTimeMs, and the timers of the window.          *)

MaxDelay == 2
MaxCalls == 3
MaxTime == 4

\* The arguments a call may carry
Args == {"a", "b"}

\* let debounceId: number | null = null;  (timer ids are positive)
NoTimer == 0

\* The closure's state and the window's timer table, as one record
Debouncer ==
  [debounceId |-> debounceId, timeouts |-> timeouts,
   timerCount |-> timerCount, calls |-> calls]

\* window.clearTimeout(id): an id that is not pending is ignored
clearTimeout(table, id) == [t \in DOMAIN table \ {id} |-> table[t]]

\* callDebounced(...args): clear the timer debounceId names, if it names
\* one, and set a new timer that holds the arguments of this call.
callDebounced(st, args, at) ==
  LET cleared == IF st.debounceId # NoTimer
                   THEN clearTimeout(st.timeouts, st.debounceId)
                   ELSE st.timeouts
      id == st.timerCount + 1
      call == Len(st.calls) + 1
  IN
  [debounceId |-> id,
   timeouts |-> [t \in DOMAIN cleared \cup {id} |->
                   IF t = id
                     THEN [due |-> at + debounceTimeMs, args |-> args, setBy |-> call]
                     ELSE cleared[t]],
   timerCount |-> id,
   calls |-> Append(st.calls, [args |-> args, at |-> at])]

\* No call of parseJobListings is under way.
ParserIdle ==
  /\ apiData = Payload("undefined", Undefined, Undefined)
  /\ pc = "idle"
  /\ data = <<>>
  /\ records = <<>>
  /\ listings = <<>>
  /\ result = <<>>

\* debounce(callback, debounceTimeMs) has returned callDebounced: the time
\* is a whole number above 0; nothing has been called, no timer is set.
\* The callback is the caller's: it may or may not call the debounced
\* function itself.
DebounceInit ==
  /\ debounceTimeMs \in 1..MaxDelay
  /\ callbackCalls \in BOOLEAN
  /\ debounceId = NoTimer
  /\ timeouts = <<>>
  /\ timerCount = 0
  /\ now = 0
  /\ calls = <<>>
  /\ invoked = <<>>
  /\ ParserIdle

\* No debounced function is in use: the state of one just made.
DebounceIdle ==
  /\ debounceTimeMs = 1
  /\ callbackCalls = FALSE
  /\ debounceId = NoTimer
  /\ timeouts = <<>>
  /\ timerCount = 0
  /\ now = 0
  /\ calls = <<>>
  /\ invoked = <<>>

\* The page calls the debounced function.
Call ==
  /\ Len(calls) < MaxCalls
  /\ \E args \in Args :
       LET st == callDebounced(Debouncer, args, now) IN
       /\ debounceId' = st.debounceId
       /\ timeouts' = st.timeouts
       /\ timerCount' = st.timerCount
       /\ calls' = st.calls
  /\ UNCHANGED <<debounceTimeMs, callbackCalls, now, invoked, parserVars>>

\* A timer that is due fires and its closure runs to the end:
\*   callback(...args); debounceId = null;
\* A callback that calls the debounced function does so before the closure
\* resets debounceId.
Expire ==
  \E id \in DOMAIN timeouts :
    /\ timeouts[id].due <= now
    /\ invoked' = Append(invoked, [args |-> timeouts[id].args,
                                   setBy |-> timeouts[id].setBy,
                                   seen |-> Len(calls)])
    /\ \E again \in IF callbackCalls /\ Len(calls) < MaxCalls
                      THEN {"return"} \cup Args
                      ELSE {"return"} :
         LET fired == [Debouncer EXCEPT !.timeouts = clearTimeout(timeouts, id)]
             st == IF again = "return"
                     THEN fired
                     ELSE callDebounced(fired, again, now)
         IN
         /\ timeouts' = st.timeouts
         /\ timerCount' = st.timerCount
         /\ calls' = st.calls
    /\ debounceId' = NoTimer
    /\ UNCHANGED <<debounceTimeMs, callbackCalls, now, parserVars>>

\* A millisecond passes.  A timer fires at its due time or later.
Tick ==
  /\ now < MaxTime
  /\ now' = now + 1
  /\ UNCHANGED <<debounceTimeMs, callbackCalls, debounceId, timeouts,
                 timerCount, calls, invoked, parserVars>>

DebounceNext ==
  \/ Call
  \/ Expire
  \/ Tick

DebounceSpec == DebounceInit /\ [][DebounceNext]_vars

-----------------------------------------------------------------------------
(* One call of parseJobListings, stage by stage *)

Init ==
  /\ apiData \in Payloads
  /\ pc = "called"
  /\ data = <<>>
  /\ records = <<>>
  /\ listings = <<>>
  /\ result = <<>>
  /\ DebounceIdle

\* jobListingDataPipeline, first schema: validate the envelope, split it
InitialResponse ==
  /\ pc = "called"
  /\ LET first == initialResponseProcessor(apiData) IN
     /\ pc' = CASE first.status = "success" -> "split"
                [] first.status = "failure" -> "rejected"
                [] OTHER -> "thrown"
     /\ data' = first.data
  /\ UNCHANGED <<apiData, records, listings, result>>
  /\ UNCHANGED debounceVars

\* recordsTransformer, its schema: validate the header and the rows
ValidateApiData ==
  /\ pc = "split"
  /\ pc' = IF apiDataValidator(data) THEN "validated" ELSE "rejected"
  /\ UNCHANGED <<apiData, data, records, listings, result>>
  /\ UNCHANGED debounceVars

\* recordsTransformer, first transform: one partial record per row
BuildRecords ==
  /\ pc = "validated"
  /\ LET built == buildRecords(data) IN
     /\ pc' = IF built.status = "success" THEN "built" ELSE "thrown"
     /\ records' = built.data
  /\ UNCHANGED <<apiData, data, listings, result>>
  /\ UNCHANGED debounceVars

\* recordsTransformer, second transform: keep the records the schema accepts
ValidateListings ==
  /\ pc = "built"
  /\ listings' = flatMapListings(records)
  /\ pc' = "parsed"
  /\ UNCHANGED <<apiData, data, records, result>>
  /\ UNCHANGED debounceVars

\* return parseResult.success ? parseResult.data : [];
Return ==
  /\ pc \in {"parsed", "rejected"}
  /\ result' = IF pc = "parsed" THEN listings ELSE <<>>
  /\ pc' = "returned"
  /\ UNCHANGED <<apiData, data, records, listings>>
  /\ UNCHANGED debounceVars

Next ==
  \/ InitialResponse
  \/ ValidateApiData
  \/ BuildRecords
  \/ ValidateListings
  \/ Return

Spec == Init /\ [][Next]_vars

-----------------------------------------------------------------------------
(* Vocabulary of the properties *)

IsTable(payload) == payload \in Tables

HeaderOf(payload) == payload.values.v[1]

\* Data row i of a table (row 0 of `values` is the header)
RowOf(payload, i) == payload.values.v[i + 1]

RowCount(payload) == Len(payload.values.v) - 1

HeaderNames(payload) == fieldIndices(HeaderOf(payload))

\* The listing that data row i yields on its own under the table's header:
\* a sequence of one listing, or of none when the schema rejects its record.
OwnListing(payload, i) ==
  listingOf(buildRecord(HeaderNames(payload), RowOf(payload, i)))

\* The listing of data row i is part of the outcome `out` of a call.
AppearsIn(out, own) ==
  /\ out.status = "returned"
  /\ \E n \in DOMAIN out.data : <<out.data[n]>> = own

Appears(payload, i) == AppearsIn(parseJobListings(payload), OwnListing(payload, i))

WithRow(payload, i, row) ==
  [payload EXCEPT !.values.v = [@ EXCEPT ![i + 1] = row]]

WithoutRow(payload, i) ==
  [payload EXCEPT !.values.v = SubSeq(@, 1, i) \o SubSeq(@, i + 2, Len(@))]

-----------------------------------------------------------------------------
(* C1: parseJobListings is total.  Whatever the payload, the call never    *)
(* raises an exception, and what it returns is a sequence of records that  *)
(* have exactly the keys of a JobListing.                                  *)
C1_Total ==
  /\ pc # "thrown"
  /\ pc = "returned" =>
       /\ parseJobListings(apiData) = Returned(result)
       /\ \A n \in DOMAIN result : DOMAIN result[n] = ListingKeys

\* A payload that is not even an object has been answered with [].
C1_Witness ==
  /\ pc = "returned"
  /\ apiData.k \in {"null", "number", "string", "array"}
  /\ result = <<>>

-----------------------------------------------------------------------------
(* C2 as stated: for every table and distinct data rows i and j, removing  *)
(* row i or replacing it with any corrupted content (any row of DataRows:  *)
(* wrong cell types, a non-scalar cell, fewer cells, invalid values) never *)
(* changes whether the listing of row j appears in the output.             *)
C2_RowIndependence_AsStated ==
  (pc = "returned" /\ IsTable(apiData)) =>
    LET before == parseJobListings(apiData)
        own == [j \in 1..RowCount(apiData) |-> OwnListing(apiData, j)]
    IN
    \A i \in 1..RowCount(apiData) :
      /\ LET after == parseJobListings(WithoutRow(apiData, i)) IN
         \A j \in 1..RowCount(apiData) \ {i} :
           AppearsIn(after, own[j]) = AppearsIn(before, own[j])
      /\ \A row \in DataRows :
           LET after == parseJobListings(WithRow(apiData, i, row)) IN
           \A j \in 1..RowCount(apiData) \ {i} :
             AppearsIn(after, own[j]) = AppearsIn(before, own[j])

(* C2 amended: in a table whose data rows all hold at least 8 scalar       *)
(* cells, removing row i or replacing it with any row that still holds at  *)
(* least 8 scalar cells never changes whether the listing of row j         *)
(* appears; a replacement with a non-scalar cell or fewer than 8 cells     *)
(* empties the whole output.  (Row j is the same row, under the same       *)
(* header, before and after: own[j] is its listing in both tables.)        *)
C2_RowIndependence ==
  (/\ pc = "returned"
   /\ IsTable(apiData)
   /\ \A i \in 1..RowCount(apiData) : jsonSheetRowValidator(RowOf(apiData, i))) =>
    LET before == parseJobListings(apiData)
        own == [j \in 1..RowCount(apiData) |-> OwnListing(apiData, j)]
    IN
    \A i \in 1..RowCount(apiData) :
      /\ LET after == parseJobListings(WithoutRow(apiData, i)) IN
         \A j \in 1..RowCount(apiData) \ {i} :
           AppearsIn(after, own[j]) = AppearsIn(before, own[j])
      /\ \A row \in DataRows :
           LET after == parseJobListings(WithRow(apiData, i, row)) IN
           IF jsonSheetRowValidator(row)
             THEN \A j \in 1..RowCount(apiData) \ {i} :
                    AppearsIn(after, own[j]) = AppearsIn(before, own[j])
             ELSE after = Returned(<<>>)

\* A valid row stands next to a row that the schema rejected: the valid one
\* was returned alone.
C2_Witness ==
  /\ pc = "returned"
  /\ IsTable(apiData)
  /\ RowCount(apiData) = 2
  /\ jsonSheetRowValidator(RowOf(apiData, 1))
  /\ OwnListing(apiData, 1) = <<>>
  /\ OwnListing(apiData, 2) # <<>>
  /\ result = OwnListing(apiData, 2)

-----------------------------------------------------------------------------
(* C3: header required-set property.  A call returns a non-empty result    *)
(* only for a payload whose header row holds every one of the 8 required   *)
(* names and no name twice; a header that omits a required name or repeats *)
(* a name gives the empty result whatever the rows hold.                   *)
HoldsEveryRequiredName(header) ==
  \A name \in requiredFieldsSet : \E c \in DOMAIN header.v : header.v[c] = Str(name)

RepeatsAName(header) ==
  \E c, d \in DOMAIN header.v : c # d /\ header.v[c] = header.v[d]

C3_HeaderRequiredSet ==
  pc = "returned" =>
    /\ result # <<>> =>
         /\ apiData.values.k = "array"
         /\ HoldsEveryRequiredName(HeaderOf(apiData))
         /\ ~RepeatsAName(HeaderOf(apiData))
    /\ (/\ IsTable(apiData)
        /\ \/ ~HoldsEveryRequiredName(HeaderOf(apiData))
           \/ RepeatsAName(HeaderOf(apiData))) => result = <<>>

\* "company" stands twice in the header, above a row of scalar cells that
\* every other header of the model accepts: nothing is returned.
C3_Witness ==
  /\ pc = "returned"
  /\ IsTable(apiData)
  /\ RepeatsAName(HeaderOf(apiData))
  /\ RowCount(apiData) >= 1
  /\ RowOf(apiData, 1) = Arr(acmeRow)
  /\ result = <<>>

-----------------------------------------------------------------------------
(* C4: every JobListing returned satisfies all field constraints at once:  *)
(* company, jobTitle and appStatus are non-empty text, dateSubmitted and   *)
(* dateLastModified are text in the date-time format, location and notes   *)
(* are text, url is empty text or a valid URL, extraFields maps names to   *)
(* scalars; no required field is unset.                                    *)
NonEmptyText(value) == value.k = "string" /\ value.v # ""

DateTimeText(value) == value.k = "string" /\ IsDateTime(value.v)

C4_ListingsValid ==
  pc = "returned" =>
    \A n \in DOMAIN result :
      LET listing == result[n] IN
      /\ DOMAIN listing = ListingKeys
      /\ NonEmptyText(listing["company"])
      /\ NonEmptyText(listing["jobTitle"])
      /\ NonEmptyText(listing["appStatus"])
      /\ DateTimeText(listing["dateSubmitted"])
      /\ DateTimeText(listing["dateLastModified"])
      /\ listing["location"].k = "string"
      /\ listing["notes"].k = "string"
      /\ listing["url"].k = "string"
      /\ listing["url"].v = "" \/ IsUrl(listing["url"].v)
      /\ \A key \in DOMAIN listing["extraFields"] :
           listing["extraFields"][key].k \in {"string", "number", "boolean"}

\* Of two rows of scalar cells one was returned and the other, whose
\* record breaks a field constraint, was not.
C4_Witness ==
  /\ pc = "returned"
  /\ IsTable(apiData)
  /\ RowCount(apiData) = 2
  /\ Len(result) = 1
  /\ \E i \in 1..2 : OwnListing(apiData, i) = <<>>

-----------------------------------------------------------------------------
(* C5 as stated: total coverage of extra columns.  For every header column *)
(* whose name is not a required field and every data row that is parsed    *)
(* successfully and has a cell at that column's index, the row's listing   *)
(* holds that column name as a key of extraFields, mapped to that cell.    *)
C5_ExtraColumnsCovered ==
  (pc = "returned" /\ Len(records) > 0) =>
    \A i \in DOMAIN records :
      jobListingSchema(records[i]) =>
        \A c \in DOMAIN data.fields.v \cap DOMAIN data.rows[i].v :
          LET name == data.fields.v[c].v IN
          ~isRequiredField(name) =>
            /\ name \in DOMAIN records[i]["extraFields"]
            /\ records[i]["extraFields"][name] = data.rows[i].v[c]

-----------------------------------------------------------------------------
(* C6 as stated: a payload whose only property is `values`, holding the    *)
(* table of Scenario A, is accepted and yields exactly one JobListing with *)
(* extraFields = { source: "LinkedIn" }.                                   *)
scenarioListing ==
  [company |-> Str("Acme"),
   jobTitle |-> Str("Engineer"),
   location |-> Str("Remote"),
   appStatus |-> Str("Applied"),
   url |-> Str("https://acme.example/job"),
   notes |-> Str(""),
   dateSubmitted |-> Str("2024-01-01T00:00:00.000Z"),
   dateLastModified |-> Str("2024-01-02T00:00:00.000Z"),
   extraFields |-> [source |-> Str("LinkedIn")]]

C6_ValuesAlone_AsStated ==
  (/\ pc = "returned"
   /\ apiData.k = "object"
   /\ apiData.majorDimension = Undefined
   /\ apiData.values = scenarioValues) => result = <<scenarioListing>>

(* C6 amended: the table of Scenario A is accepted, with exactly that one  *)
(* JobListing, when the payload object also carries majorDimension equal   *)
(* to "ROWS"; with `values` as its only property, or with another          *)
(* majorDimension, the payload is rejected and the result is empty.        *)
C6_ScenarioA ==
  (/\ pc = "returned"
   /\ apiData.k = "object"
   /\ apiData.values = scenarioValues) =>
    IF apiData.majorDimension = Str("ROWS")
      THEN result = <<scenarioListing>>
      ELSE result = <<>>

\* The Scenario A response with majorDimension "ROWS" has been parsed.
C6_Witness ==
  /\ pc = "returned"
  /\ apiData.k = "object"
  /\ apiData.majorDimension = Str("ROWS")
  /\ apiData.values = scenarioValues
  /\ Len(result) = 1

-----------------------------------------------------------------------------
(* C7 as stated: a data row with fewer cells than the header is not a      *)
(* fault; the header entries beyond its length are never visited and the   *)
(* fields they name stay unset; the consequence is local to that row: the  *)
(* other rows appear exactly as they do in the table without it.           *)
IsShort(payload, i) ==
  /\ Len(RowOf(payload, i).v) >= 1
  /\ Len(RowOf(payload, i).v) < Len(HeaderOf(payload).v)

\* The record of row i holds nothing under the header names past its end.
UnvisitedStayUnset(payload, i) ==
  LET record == buildRecord(HeaderNames(payload), RowOf(payload, i)) IN
  \A c \in DOMAIN HeaderOf(payload).v :
    c > Len(RowOf(payload, i).v) =>
      LET name == HeaderNames(payload)[c] IN
      /\ name \notin DOMAIN record
      /\ name \notin DOMAIN record["extraFields"]

\* The other rows appear exactly as in the table without row i.
LocalToRow(payload, i) ==
  LET before == parseJobListings(payload)
      after == parseJobListings(WithoutRow(payload, i))
  IN
  \A j \in 1..RowCount(payload) \ {i} :
    AppearsIn(after, OwnListing(payload, j)) = AppearsIn(before, OwnListing(payload, j))

C7_ShortRowLocal_AsStated ==
  (pc = "returned" /\ IsTable(apiData) /\ fieldsSchema(HeaderOf(apiData))) =>
    \A i \in 1..RowCount(apiData) :
      IsShort(apiData, i) =>
        /\ UnvisitedStayUnset(apiData, i)
        /\ LocalToRow(apiData, i)

(* C7 amended: a data row with fewer cells than the header but at least 8  *)
(* cells is not a fault; the header entries beyond its length are never    *)
(* visited, the fields they name stay unset, and the other rows appear     *)
(* exactly as in the table without it.  A row with fewer than 8 cells      *)
(* fails the row schema and the result for the whole table is empty.       *)
C7_ShortRowLocal ==
  /\ pc # "thrown"
  /\ (pc = "returned" /\ IsTable(apiData) /\ fieldsSchema(HeaderOf(apiData))) =>
       \A i \in 1..RowCount(apiData) :
         IsShort(apiData, i) =>
           IF Len(RowOf(apiData, i).v) >= Len(requiredFields)
             THEN /\ UnvisitedStayUnset(apiData, i)
                  /\ LocalToRow(apiData, i)
             ELSE result = <<>>

\* A row of 8 cells under a header of 9 left dateLastModified or the extra
\* column unvisited, and another row of the table was returned.
C7_Witness ==
  /\ pc = "returned"
  /\ IsTable(apiData)
  /\ RowCount(apiData) = 2
  /\ IsShort(apiData, 1)
  /\ Len(RowOf(apiData, 1).v) = Len(requiredFields)
  /\ ~IsShort(apiData, 2)
  /\ result = OwnListing(apiData, 2)
  /\ Len(result) = 1

-----------------------------------------------------------------------------
(* C8: envelope failures are batch-fatal and give the empty result, not a  *)
(* fault: the payload is not an object, `values` is missing or empty or    *)
(* has fewer than 2 rows, a row is empty, or a cell is not a string,       *)
(* number or boolean.                                                      *)
EnvelopeBroken(payload) ==
  \/ payload.k # "object"
  \/ payload.values.k # "array"
  \/ Len(payload.values.v) < 2
  \/ \E r \in DOMAIN payload.values.v :
       \/ payload.values.v[r].v = <<>>
       \/ \E c \in DOMAIN payload.values.v[r].v :
            payload.values.v[r].v[c].k \notin {"string", "number", "boolean"}

C8_EnvelopeFailuresEmpty ==
  /\ pc # "thrown"
  /\ (pc = "returned" /\ EnvelopeBroken(apiData)) => result = <<>>

\* A row that would have been returned stands in a table with a row that
\* holds a nested object or null: nothing is returned.
C8_Witness ==
  /\ pc = "returned"
  /\ IsTable(apiData)
  /\ \E i, j \in 1..RowCount(apiData) :
       /\ OwnListing(apiData, i) # <<>>
       /\ jsonSheetRowValidator(RowOf(apiData, i))
       /\ \E c \in DOMAIN RowOf(apiData, j).v :
            RowOf(apiData, j).v[c].k \in {"object", "null"}
  /\ fieldsSchema(HeaderOf(apiData))
  /\ result = <<>>

-----------------------------------------------------------------------------
(* C9: for a table that passes envelope and header validation the result   *)
(* is exactly the subsequence of data rows whose record satisfies the      *)
(* JobListing schema, in the order of the rows: a row that fails field     *)
(* validation is dropped alone.                                            *)
KeptRows(payload) == {i \in 1..RowCount(payload) : OwnListing(payload, i) # <<>>}

\* The n-th kept row, counting in row order
NthKept(payload, n) ==
  CHOOSE i \in KeptRows(payload) :
    Cardinality({k \in KeptRows(payload) : k < i}) = n - 1

C9_OrderedSubsequence ==
  (/\ pc = "returned"
   /\ initialResponseSchema(apiData)
   /\ fieldsSchema(HeaderOf(apiData))) =>
    /\ Len(result) = Cardinality(KeptRows(apiData))
    /\ \A n \in DOMAIN result : <<result[n]>> = OwnListing(apiData, NthKept(apiData, n))

\* Two different rows were returned in row order, or a row with the url
\* "not-a-url" was dropped next to a row that was returned.
C9_Witness ==
  /\ pc = "returned"
  /\ IsTable(apiData)
  /\ RowCount(apiData) = 2
  /\ \/ /\ Len(result) = 2
        /\ result[1] # result[2]
     \/ /\ Len(result) = 1
        /\ \E i \in 1..2 : Str("not-a-url") \in Range(RowOf(apiData, i).v)

-----------------------------------------------------------------------------
(* Writing listings back into a table (toNewSheetRows is a stub in the     *)
(* source; this is the re-serialization the specification describes: a     *)
(* header of the required field set followed by the extraFields keys, and  *)
(* one row per listing holding the listing's values).                      *)

ExtraKeys(found) == UNION {DOMAIN found[n]["extraFields"] : n \in DOMAIN found}

\* How many listings hold the key
Holders(found, key) ==
  Cardinality({n \in DOMAIN found : key \in DOMAIN found[n]["extraFields"]})

\* The extra keys in one order, those that more listings hold first
extraColumns(found) ==
  LET keys == ExtraKeys(found)
      count == Cardinality(keys)
  IN
  CHOOSE order \in [1..count -> keys] :
    /\ \A a, b \in 1..count : a # b => order[a] # order[b]
    /\ \A a, b \in 1..count :
         a < b => Holders(found, order[a]) >= Holders(found, order[b])

RECURSIVE heldValues(_, _)
heldValues(object, columns) ==
  IF columns = <<>>
    THEN <<>>
    ELSE (IF Head(columns) \in DOMAIN object THEN <<object[Head(columns)]>> ELSE <<>>)
         \o heldValues(object, Tail(columns))

\* The row of a listing: its required values, then the extra values it holds
toSheetRow(listing, columns) ==
  Arr([n \in DOMAIN requiredFields |-> listing[requiredFields[n]]]
      \o heldValues(listing["extraFields"], columns))

\* The response that holds the listings as a table
toSheetResponse(found) ==
  LET columns == extraColumns(found) IN
  Payload("object", Str("ROWS"),
          Arr(<<Arr(requiredHeader \o Cells(columns))>>
              \o [n \in DOMAIN found |-> toSheetRow(found[n], columns)]))

-----------------------------------------------------------------------------
(* C10: idempotence.  Whatever listings a call returns, writing them back  *)
(* into a table (header: the required field set followed by the            *)
(* extraFields keys; rows: each listing's values) and parsing that table   *)
(* yields a set of JobListings equal to the set returned.                  *)
C10_RoundTrip ==
  pc = "returned" =>
    LET again == parseJobListings(toSheetResponse(result)) IN
    /\ again.status = "returned"
    /\ Range(again.data) = Range(result)

\* Two listings with different extraFields keys were returned and written
\* back.
C10_Witness ==
  /\ pc = "returned"
  /\ Len(result) = 2
  /\ DOMAIN result[1]["extraFields"] # DOMAIN result[2]["extraFields"]
  /\ Len(parseJobListings(toSheetResponse(result)).data) = 2

-----------------------------------------------------------------------------
(* C11: in the record builder a cell under a required column is copied to  *)
(* the record only if it is text.  A number or boolean cell under a        *)
(* required column is skipped: it is stored neither in the field nor in    *)
(* extraFields, the field stays unset, and that row, and only that row, is *)
(* absent from the output.                                                 *)
\* The columns of data row i that are required ones and hold no text
NonTextRequired(i) ==
  {c \in DOMAIN data.fields.v \cap DOMAIN data.rows[i].v :
     /\ isRequiredField(data.fields.v[c].v)
     /\ data.rows[i].v[c].k # "string"}

C11_NonTextRequiredSkipped ==
  (pc = "returned" /\ Len(records) > 0) =>
    /\ \A i \in DOMAIN records :
         \A c \in DOMAIN data.fields.v \cap DOMAIN data.rows[i].v :
           LET name == data.fields.v[c].v IN
           isRequiredField(name) =>
             IF data.rows[i].v[c].k = "string"
               THEN /\ name \in DOMAIN records[i]
                    /\ records[i][name] = data.rows[i].v[c]
               ELSE /\ name \notin DOMAIN records[i]
                    /\ name \notin DOMAIN records[i]["extraFields"]
                    /\ listingOf(records[i]) = <<>>
                    /\ LocalToRow(apiData, i)
    /\ Len(result) =
         Cardinality({i \in DOMAIN records : listingOf(records[i]) # <<>>})
    /\ \A i \in DOMAIN records :
         NonTextRequired(i) # {} => listingOf(records[i]) = <<>>

\* A row with a number or boolean under a required column stands before a
\* row that was returned alone.
C11_Witness ==
  /\ pc = "returned"
  /\ Len(records) = 2
  /\ NonTextRequired(1) # {}
  /\ \E c \in NonTextRequired(1) : data.rows[1].v[c].k \in {"number", "boolean"}
  /\ NonTextRequired(2) = {}
  /\ Len(result) = 1
  /\ <<result[1]>> = listingOf(records[2])

-----------------------------------------------------------------------------
(* C13: when a data row has more cells than the header, every cell past    *)
(* the header's end is stored in extraFields under the key "", a later one *)
(* overwriting an earlier one, and the row is neither rejected nor dropped *)
(* on that account; so extraFields may hold a key that is no header name   *)
(* and fewer entries than the row has cells past the header.               *)
IsLong(i) == Len(data.rows[i].v) > Len(data.fields.v)

\* Data row i cut to the length of the header
CutToHeader(i) == Arr(SubSeq(data.rows[i].v, 1, Len(data.fields.v)))

Names(fields) == Range(fieldIndices(fields))

C13_CellsPastHeader ==
  (pc = "returned" /\ Len(records) > 0) =>
    \A i \in DOMAIN records :
      IsLong(i) =>
        LET extra == records[i]["extraFields"]
            cut == buildRecord(fieldIndices(data.fields), CutToHeader(i))
        IN
        /\ "" \in DOMAIN extra
        /\ extra[""] = data.rows[i].v[Len(data.rows[i].v)]
        /\ DOMAIN extra \subseteq Names(data.fields) \cup {""}
        /\ Cardinality(DOMAIN extra \ Names(data.fields)) <= 1
        /\ \A key \in DOMAIN extra \ {""} : extra[key] = cut["extraFields"][key]
        /\ \A key \in requiredFieldsSet :
             /\ key \in DOMAIN records[i] <=> key \in DOMAIN cut
             /\ key \in DOMAIN cut => records[i][key] = cut[key]
        /\ (listingOf(records[i]) # <<>>) <=> (listingOf(cut) # <<>>)
        /\ listingOf(records[i]) # <<>> =>
             \E n \in DOMAIN result : <<result[n]>> = listingOf(records[i])

\* A returned row had two cells past the end of its header: its extraFields
\* hold the single key "", no header name, with the last cell.
C13_Witness ==
  /\ pc = "returned"
  /\ Len(records) > 0
  /\ Len(data.rows[1].v) = Len(data.fields.v) + 2
  /\ "" \notin Names(data.fields)
  /\ DOMAIN records[1]["extraFields"] = {""}
  /\ Len(result) > 0
  /\ result[1]["extraFields"][""] = Str("overflow")

-----------------------------------------------------------------------------
(* C12 as stated: for a function returned by debounce(callback, t) with a  *)
(* whole t > 0, under any interleaving of calls and timer expirations, at  *)
(* most one timer is pending at any time; each call cancels the pending    *)
(* timer and starts a new one, so a pending timer is the one the most      *)
(* recent call set; the callback runs only when a timer expires with no    *)
(* call since it was set, with the arguments of the most recent call; a    *)
(* burst of calls spaced less than t apart produces exactly one callback   *)
(* invocation, after which no timer is pending.                            *)
Pending == DOMAIN timeouts

AtMostOnePending == Cardinality(Pending) <= 1

PendingIsNewest == \A id \in Pending : timeouts[id].setBy = Len(calls)

RunsForNewestCall ==
  \A n \in DOMAIN invoked :
    /\ invoked[n].setBy = invoked[n].seen
    /\ invoked[n].args = calls[invoked[n].seen].args

\* Every call but the first came less than debounceTimeMs after the one
\* before it.
IsBurst ==
  \A n \in DOMAIN calls : n > 1 => calls[n].at - calls[n - 1].at < debounceTimeMs

BurstRunsOnce ==
  (IsBurst /\ calls # <<>>) =>
    IF Pending = {} THEN Len(invoked) = 1 ELSE Len(invoked) = 0

C12_Debounce_AsStated ==
  /\ AtMostOnePending
  /\ PendingIsNewest
  /\ RunsForNewestCall
  /\ BurstRunsOnce

\* The same for a callback that never calls the debounced function.
DebouncePlainCallback == ~callbackCalls => C12_Debounce_AsStated

\* A burst of three calls has ended in one run of the callback.
DebounceBurstDone ==
  /\ ~callbackCalls
  /\ Len(calls) = MaxCalls
  /\ IsBurst
  /\ Len(invoked) = 1
  /\ Pending = {}

====
